---- MODULE Spec2Model ----
(***************************************************************************)
(* HyperFlash trade lifecycle coordinator.                                 *)
(*                                                                         *)
(* The backend is a single Node.js process: the code between two awaits    *)
(* runs atomically, so every action below is one such segment of a         *)
(* handler.  The chain (Factory / UserStaking contracts), the bridge and   *)
(* the trading venue are the environment; a transaction is estimated and   *)
(* sent in one step, mined in a second and its receipt is seen in a third. *)
(***************************************************************************)
EXTENDS Integers, FiniteSets, Sequences, TLC

\* ------------------------------------------------------------------ bounds
MaxTrades == 1
MaxUsers == 2
MaxStake == 1
MaxAmount == 1
\* calls of each test endpoint per trade
MaxAdminCalls == 1
\* requests: the server's, and direct calls of registerTrade
MaxRequests == 2
\* monitorTrades ticks that may be running at the same time
MaxPollers == 1
\* debridge ids a caller may hand to setDebridgeId (0 is null)
MaxDebridgeId == 2
\* the most a staking contract holds when users deposit and withdraw
MaxDeposit == 2

TradeIds == 1..MaxTrades
Requests == 1..(IF MaxRequests > MaxTrades THEN MaxRequests ELSE MaxTrades)
Users == 1..MaxUsers
\* address(0): no staking contract / no owner
ZeroAddress == 0
\* a staking contract is identified by the user that deployed it
Contracts == Users
\* the staking contract hard-wired into the demo server
KnownStaking == 1

\* who called slashUser / completeBridge: the timeout callback, the server's
\* bridge watcher, the monitorTrades tick, or the k-th call of a test endpoint
TimerCaller == 0
WatcherCaller == 0
Pollers == 1..MaxPollers
PollCaller(p) == 0 - p
PollCallers == {PollCaller(p) : p \in Pollers}
AdminCallers == 1..MaxAdminCalls
SlashOrigins == {TimerCaller} \cup AdminCallers
CompleteOrigins == {WatcherCaller} \cup PollCallers \cup AdminCallers

VARIABLES
    server,               \* which POST /trade/initiate handler is deployed
    userStakingContracts, \* Factory.userStakingContracts (user -> contract)
    deployedContracts,    \* Factory.deployedContracts (array of contracts)
    stakedAmount,         \* UserStaking.stakedAmount, per contract
    isSlashed,            \* UserStaking.isSlashed, per contract
    chainTrades,          \* UserStaking.activeTrades, per contract
    activeTrades,         \* TradeMonitor.activeTrades: the keys of the Map
    tradeData,            \* the trade objects the Map holds (or held)
    now,                  \* Date.now(), as a logical clock
    req,                  \* POST /trade/initiate requests, by their tradeId
    timer,                \* the setTimeout of monitorBridgeForTrade
    sl,                   \* slashUser invocations, by trade and caller
    cb,                   \* completeBridge invocations, by trade and caller
    watcher,              \* server monitorBridgeCompletion background task
    poll,                 \* a monitorTrades tick
    lastPoll,             \* outcome of the watcher's latest status poll
    audit,                \* the "[AUDIT] Slashing details" records logged
    bridgeClaimed,        \* the bridge delivered the funds (Claimed event)
    completedEvents,      \* TradeCompleted events not yet delivered
    balance,              \* address(UserStaking).balance, per contract
    factoryBackend,       \* Factory.backend
    stakingBackend,       \* UserStaking.backend, per contract
    stakingImpl,          \* the staking contract deployed: Factory.sol's
                          \* UserStaking or FactoryOptimized.sol's MinimalStaking
    sdk                   \* a HyperFlashSDK instance and its pending call

vars == <<server, userStakingContracts, deployedContracts, stakedAmount,
          isSlashed, chainTrades,
          activeTrades, tradeData, now, req, timer, sl, cb, watcher, poll,
          lastPoll, audit, bridgeClaimed, completedEvents, balance,
          factoryBackend, stakingBackend, stakingImpl, sdk>>

chainVars == <<userStakingContracts, deployedContracts, stakedAmount,
               isSlashed, chainTrades, balance, factoryBackend,
               stakingBackend, stakingImpl>>

\* ------------------------------------------------------------ trade record
NoTrade ==
    [user |-> ZeroAddress, stakingContract |-> ZeroAddress, amount |-> 0,
     startTime |-> 0, debridgeId |-> 0, bridgeInitiated |-> FALSE,
     bridgeCompleted |-> FALSE, tradeExecuted |-> FALSE, error |-> FALSE]

\* a record stored without the requested amount
NewTradeNoAmount(u, c, a) ==
    [user |-> u, stakingContract |-> c, amount |-> 0, startTime |-> now,
     debridgeId |-> 0, bridgeInitiated |-> FALSE, bridgeCompleted |-> FALSE,
     tradeExecuted |-> FALSE, error |-> FALSE]

\* Date.now(): a logical clock that ticks with every record stored, so that
\* startTime also gives the Map's insertion order
NewTrade(u, c, a) ==
    [user |-> u, stakingContract |-> c, amount |-> a, startTime |-> now,
     debridgeId |-> 0, bridgeInitiated |-> FALSE, bridgeCompleted |-> FALSE,
     tradeExecuted |-> FALSE, error |-> FALSE]

\* a request: a POST /trade/initiate ("server") or a call of
\* TradeMonitor.registerTrade by another caller ("direct")
NoReq ==
    [pc |-> "idle", via |-> "none", tradeId |-> 0, user |-> ZeroAddress,
     amount |-> 0, stakingAddress |-> ZeroAddress, debridgeId |-> 0,
     resp |-> "none", error |-> "none", verified |-> FALSE,
     bridge |-> "none", execResult |-> "none"]

\* ------------------------------------------------- UserStaking (Factory.sol)
\* hasSufficientStake with the 110% ratio of the security design
hasSufficientStakeWithMargin(c, a) ==
    ~isSlashed[c] /\ stakedAmount[c] * 10000 >= a * 11000

\* hasSufficientStake(_amount)
hasSufficientStake(c, a) == ~isSlashed[c] /\ stakedAmount[c] >= a

\* the requires of registerTrade: notSlashed, !activeTrades[_tradeId]
CanRegisterTrade(c, t) == ~isSlashed[c] /\ t \notin chainTrades[c]

\* the require of completeTrade: activeTrades[_tradeId]
CanCompleteTrade(c, t) == t \in chainTrades[c]

\* the requires of slash: notSlashed (UserStaking only), stakedAmount > 0,
\* and the transfer of stakedAmount to the shared EOA succeeds
CanSlash(c) ==
    /\ stakingImpl = "UserStaking" => ~isSlashed[c]
    /\ stakedAmount[c] > 0
    /\ balance[c] >= stakedAmount[c]

\* the contracts of the users 1..n that have one, as deployedContracts holds
\* them when they were deployed in this order (the backend never reads it)
RECURSIVE DeployedBy(_, _)
DeployedBy(m, n) ==
    IF n = 0 THEN <<>>
    ELSE IF m[n] # ZeroAddress THEN Append(DeployedBy(m, n - 1), m[n])
    ELSE DeployedBy(m, n - 1)

\* the backend address the factory is constructed with (the server's wallet)
Backend == MaxUsers + 1

\* backend wallets: the one deployed with and a replacement
Backends == {Backend, Backend + 1}

\* the accounts that send transactions to the contracts
Senders == Users \cup Backends

\* no HyperFlashSDK instance has been constructed
NoSdk == [wallet |-> FALSE, op |-> "none", pc |-> "none", calls |-> 0,
          requests |-> 0,
          resp |-> [kind |-> "none", success |-> FALSE, error |-> "",
                    tradeId |-> 0, hasStakingContract |-> FALSE],
          result |-> [kind |-> "none", message |-> "", tradeId |-> 0,
                      status |-> ""]]

\* ------------------------------------------------------------------- Init
Init ==
    /\ server \in {"real", "demo"}
    /\ userStakingContracts \in [Users -> {ZeroAddress} \cup Contracts]
    /\ \A u \in Users : userStakingContracts[u] \in {ZeroAddress, u}
    /\ deployedContracts = DeployedBy(userStakingContracts, MaxUsers)
    \* the demo server's "known staking contract" is a deployed contract
    /\ server = "demo" => userStakingContracts[KnownStaking] = KnownStaking
    /\ stakedAmount \in [Contracts -> 0..MaxStake]
    /\ \A c \in Contracts :
          userStakingContracts[c] = ZeroAddress => stakedAmount[c] = 0
    /\ isSlashed = [c \in Contracts |-> FALSE]
    /\ chainTrades = [c \in Contracts |-> {}]
    /\ activeTrades = {}
    /\ tradeData = [t \in TradeIds |-> NoTrade]
    /\ now = 1
    /\ req = [r \in Requests |-> NoReq]
    /\ timer = [t \in TradeIds |-> "unset"]
    /\ sl = [t \in TradeIds |-> [o \in SlashOrigins |-> "none"]]
    /\ cb = [t \in TradeIds |-> [o \in CompleteOrigins |-> "none"]]
    /\ watcher = [t \in TradeIds |-> "off"]
    /\ poll = [p \in Pollers |-> [pc |-> "idle", cur |-> 0]]
    /\ lastPoll = [t \in TradeIds |-> "none"]
    /\ audit = {}
    /\ bridgeClaimed = [t \in TradeIds |-> FALSE]
    /\ completedEvents = {}
    /\ balance = stakedAmount
    /\ factoryBackend = Backend
    /\ stakingImpl = "UserStaking"
    /\ stakingBackend = [c \in Contracts |->
          IF userStakingContracts[c] # ZeroAddress THEN Backend
          ELSE ZeroAddress]
    /\ sdk = NoSdk

\* ------------------------------------------------ POST /trade/initiate
\* the handler's early return with an error response
Respond(r, code, msg) ==
    req' = [req EXCEPT ![r].pc = "done", ![r].resp = code, ![r].error = msg]

\* registerTrade's catch: { success: false, error }, which the server
\* answers with 400 { error }
RegisterFailed(r, msg) == Respond(r, "400", msg)

\* tradeId = `trade_${Date.now()}_${random}`: a server request gets an id
\* no request had before; ids are handed out in order
FreshTradeId(t) ==
    /\ req[t].pc = "idle"
    /\ \A t2 \in TradeIds : t2 < t => req[t2].pc # "idle"

\* input validation: !userAddress || !amount || !tradeParams
MissingParameters(u, a) == u = ZeroAddress \/ a = 0

\* part_001 (the server that registers on chain): request received, up to
\* the first await of registerTrade
InitiateReal(t, u, a) ==
    /\ server = "real"
    /\ FreshTradeId(t)
    /\ IF MissingParameters(u, a)
          THEN req' = [req EXCEPT ![t] = [NoReq EXCEPT !.pc = "done",
                          !.via = "server", !.tradeId = t,
                          !.user = u, !.amount = a, !.resp = "400",
                          !.error = "Missing required parameters"]]
          ELSE req' = [req EXCEPT ![t] = [NoReq EXCEPT
                          !.pc = "hasStakingContract", !.via = "server",
                          !.tradeId = t, !.user = u, !.amount = a]]
    /\ UNCHANGED <<server, sdk, chainVars, activeTrades, tradeData, now, timer, sl,
                   cb, watcher, poll, bridgeClaimed, completedEvents,
                   lastPoll, audit>>

\* TradeMonitor.registerTrade(userAddress, tradeId, amount) called by
\* another caller than the server, with a trade id of the caller's choice
RegisterTradeCall(r, u, t, a) ==
    /\ req[r].pc = "idle"
    /\ \A r2 \in Requests : r2 < r => req[r2].pc # "idle"
    /\ req' = [req EXCEPT ![r] = [NoReq EXCEPT
                   !.pc = "hasStakingContract", !.via = "direct",
                   !.tradeId = t, !.user = u, !.amount = a]]
    /\ UNCHANGED <<server, sdk, chainVars, activeTrades, tradeData, now, timer, sl,
                   cb, watcher, poll, bridgeClaimed, completedEvents,
                   lastPoll, audit>>

\* registerTrade: await factory.hasStakingContract(userAddress)
RegHasStakingContract(r) ==
    /\ req[r].pc = "hasStakingContract"
    /\ IF userStakingContracts[req[r].user] = ZeroAddress
          THEN RegisterFailed(r, "User has no staking contract")
          ELSE req' = [req EXCEPT ![r].pc = "getUserStakingContract"]
    /\ UNCHANGED <<server, sdk, chainVars, activeTrades, tradeData, now, timer, sl,
                   cb, watcher, poll, bridgeClaimed, completedEvents,
                   lastPoll, audit>>

\* registerTrade: await factory.getUserStakingContract(userAddress)
RegGetUserStakingContract(r) ==
    /\ req[r].pc = "getUserStakingContract"
    /\ req' = [req EXCEPT ![r].pc = "getStatus",
                  ![r].stakingAddress = userStakingContracts[req[r].user]]
    /\ UNCHANGED <<server, sdk, chainVars, activeTrades, tradeData, now, timer, sl,
                   cb, watcher, poll, bridgeClaimed, completedEvents,
                   lastPoll, audit>>

\* registerTrade: await stakingContract.getStatus(); isActive = !isSlashed
RegGetStatus(r) ==
    /\ req[r].pc = "getStatus"
    /\ IF isSlashed[req[r].stakingAddress]
          THEN RegisterFailed(r, "Staking contract is slashed")
          ELSE req' = [req EXCEPT ![r].pc = "hasSufficientStake"]
    /\ UNCHANGED <<server, sdk, chainVars, activeTrades, tradeData, now, timer, sl,
                   cb, watcher, poll, bridgeClaimed, completedEvents,
                   lastPoll, audit>>

\* registerTrade: await stakingContract.hasSufficientStake(amount)
RegHasSufficientStake(r) ==
    /\ req[r].pc = "hasSufficientStake"
    /\ IF ~hasSufficientStake(req[r].stakingAddress, req[r].amount)
          THEN RegisterFailed(r, "Insufficient stake for trade amount")
          ELSE req' = [req EXCEPT ![r].pc = "activeTrades",
                          ![r].verified = TRUE]
    /\ UNCHANGED <<server, sdk, chainVars, activeTrades, tradeData, now, timer, sl,
                   cb, watcher, poll, bridgeClaimed, completedEvents,
                   lastPoll, audit>>

\* registerTrade: await stakingContract.activeTrades(tradeId)
RegTradeExists(r) ==
    /\ req[r].pc = "activeTrades"
    /\ IF req[r].tradeId \in chainTrades[req[r].stakingAddress]
          THEN RegisterFailed(r, "Trade already registered")
          ELSE req' = [req EXCEPT ![r].pc = "registerTrade"]
    /\ UNCHANGED <<server, sdk, chainVars, activeTrades, tradeData, now, timer, sl,
                   cb, watcher, poll, bridgeClaimed, completedEvents,
                   lastPoll, audit>>

\* registerTrade: await stakingContract.registerTrade(tradeId): the gas
\* estimate runs the requires; the send itself may fail (sendOk)
RegSubmit(r, sendOk) ==
    /\ req[r].pc = "registerTrade"
    /\ IF sendOk /\ CanRegisterTrade(req[r].stakingAddress, req[r].tradeId)
          THEN req' = [req EXCEPT ![r].pc = "registerSent"]
          ELSE RegisterFailed(r, "registerTrade transaction failed")
    /\ UNCHANGED <<server, sdk, chainVars, activeTrades, tradeData, now, timer, sl,
                   cb, watcher, poll, bridgeClaimed, completedEvents,
                   lastPoll, audit>>

\* UserStaking.registerTrade is mined (or reverts, and tx.wait() throws)
RegMine(r) ==
    /\ req[r].pc = "registerSent"
    /\ IF CanRegisterTrade(req[r].stakingAddress, req[r].tradeId)
          THEN /\ chainTrades' = [chainTrades EXCEPT
                     ![req[r].stakingAddress] = @ \cup {req[r].tradeId}]
               /\ req' = [req EXCEPT ![r].pc = "registerMined"]
          ELSE /\ RegisterFailed(r, "registerTrade transaction failed")
               /\ UNCHANGED chainTrades
    /\ UNCHANGED <<server, sdk, userStakingContracts, deployedContracts,
                   stakedAmount, isSlashed, balance, factoryBackend,
                   stakingBackend, stakingImpl,
                   activeTrades, tradeData, now, timer, sl, cb, watcher, poll,
                   bridgeClaimed, completedEvents,
                   lastPoll, audit>>

\* registerTrade after tx.wait(): activeTrades.set(tradeId, {...}) and
\* { success: true }; the server's handler goes on to await
\* debridgeService.initiateBridge(...)
RegStore(r) ==
    /\ req[r].pc = "registerMined"
    /\ tradeData' = [tradeData EXCEPT ![req[r].tradeId] =
           NewTrade(req[r].user, req[r].stakingAddress, req[r].amount)]
    /\ activeTrades' = activeTrades \cup {req[r].tradeId}
    /\ now' = now + 1
    /\ req' = IF req[r].via = "server"
                 THEN [req EXCEPT ![r].pc = "initiateBridge"]
                 ELSE [req EXCEPT ![r].pc = "done", ![r].resp = "success"]
    /\ UNCHANGED <<server, sdk, chainVars, timer, sl, cb, watcher, poll,
                   bridgeClaimed, completedEvents,
                   lastPoll, audit>>

\* server.js (the demo server): the staking check is bypassed, the record is
\* stored at once with the hard-wired staking contract
InitiateDemo(t, u, a) ==
    /\ server = "demo"
    /\ FreshTradeId(t)
    /\ IF MissingParameters(u, a)
          THEN /\ req' = [req EXCEPT ![t] = [NoReq EXCEPT !.pc = "done",
                              !.via = "server", !.tradeId = t,
                              !.user = u, !.amount = a, !.resp = "400",
                              !.error = "Missing required parameters"]]
               /\ UNCHANGED <<tradeData, activeTrades, now>>
          ELSE /\ tradeData' = [tradeData EXCEPT
                                   ![t] = NewTrade(u, KnownStaking, a)]
               /\ activeTrades' = activeTrades \cup {t}
               /\ now' = now + 1
               /\ req' = [req EXCEPT ![t] = [NoReq EXCEPT
                              !.pc = "initiateBridge", !.via = "server",
                              !.tradeId = t, !.user = u, !.amount = a]]
    /\ UNCHANGED <<server, sdk, chainVars, timer, sl, cb, watcher, poll,
                   bridgeClaimed, completedEvents,
                   lastPoll, audit>>

\* ------------------------------------------------ TradeMonitor operations
\* setDebridgeId that stores a fresh object instead of updating the record
setDebridgeIdReplacing(td, t, id) ==
    IF t \in activeTrades
       THEN [td EXCEPT ![t] = [NoTrade EXCEPT !.debridgeId = id,
                                              !.bridgeInitiated = TRUE]]
       ELSE td

\* setDebridgeId(tradeId, debridgeId): only if the Map holds the trade
setDebridgeId(td, t, id) ==
    IF t \in activeTrades
       THEN [td EXCEPT ![t].debridgeId = id, ![t].bridgeInitiated = TRUE]
       ELSE td

\* slashUser(tradeId, reason) up to its first await: `if (!tradeData) return`
slashUser(t, o) ==
    [sl EXCEPT ![t][o] = IF t \in activeTrades THEN "isSlashed" ELSE "noTrade"]

\* completeBridge that finalizes executed trades only
completeBridgeExecutedOnly(t, o) ==
    [cb EXCEPT ![t][o] =
        IF t \in activeTrades /\ tradeData[t].tradeExecuted
           THEN "completeTrade" ELSE "noTrade"]

\* completeBridge(tradeId) up to its first await: `if (!tradeData) return`,
\* then tradeData.bridgeCompleted = true and the completeTrade call
completeBridge(t, o) ==
    [cb EXCEPT ![t][o] = IF t \in activeTrades THEN "completeTrade"
                                                ELSE "noTrade"]

\* completeBridge that leaves bridgeCompleted as it is
completeBridgeNoMark(td, t) == td

\* completeBridge: tradeData.bridgeCompleted = true, if the Map holds the trade
completeBridgeMark(td, t) ==
    IF t \in activeTrades THEN [td EXCEPT ![t].bridgeCompleted = TRUE] ELSE td

\* the timeout callback without its tradeExecuted test
TimeoutShouldSlashUnexecuted(t) == ~tradeData[t].bridgeCompleted

\* the condition of the timeout callback of monitorBridgeForTrade
TimeoutShouldSlash(t) ==
    ~tradeData[t].bridgeCompleted /\ tradeData[t].tradeExecuted

SlashFinal == {"noTrade", "alreadySlashed", "failed", "reverted", "slashed"}
CompleteFinal == {"noTrade", "failed", "reverted", "completed"}

\* the handler without its test of bridgeResult.success
BridgeFailedIgnored(ok) == FALSE

\* `if (!bridgeResult.success)` in the POST /trade/initiate handler
BridgeFailed(ok) == ~ok

\* bridgeResult.success, as the request's history keeps it
BridgeOutcome(ok) == IF ok THEN "ok" ELSE "failed"

\* DeBridgeService.initiateBridge returned.  id = 0 is a null debridgeId (no
\* Sent event in the receipt).  On success the handler stores the id and
\* calls executeTrade, which awaits the venue unless the trade is gone.
BridgeResult(t, ok, id) ==
    /\ req[t].pc = "initiateBridge"
    /\ id \in {0, t}
    /\ IF BridgeFailed(ok)
          THEN /\ req' = [req EXCEPT ![t].pc = "done", ![t].resp = "500",
                          ![t].error = "Bridge initiation failed",
                          ![t].bridge = BridgeOutcome(ok)]
               /\ UNCHANGED <<tradeData, watcher>>
          ELSE /\ tradeData' = setDebridgeId(tradeData, t, id)
               /\ IF t \in activeTrades
                     THEN /\ req' = [req EXCEPT ![t].pc = "executing",
                                 ![t].debridgeId = id,
                                 ![t].bridge = BridgeOutcome(ok)]
                          /\ UNCHANGED watcher
                     ELSE \* executeTrade: "Trade not found"; the handler
                          \* starts the watcher and answers
                          /\ req' = [req EXCEPT ![t].pc = "done",
                                 ![t].debridgeId = id,
                                 ![t].bridge = BridgeOutcome(ok),
                                 ![t].execResult = "notFound",
                                 ![t].resp = "200"]
                          /\ watcher' = [watcher EXCEPT ![t] = "polling"]
    /\ UNCHANGED <<now, server, sdk, chainVars, activeTrades, timer, sl, cb, poll,
                   bridgeClaimed, completedEvents,
                   lastPoll, audit>>

\* monitorBridgeForTrade without its `if (!tradeData) return`
monitorBridgeForTradeUnchecked(t) == [timer EXCEPT ![t] = "armed"]

\* monitorBridgeForTrade that sets no timer
monitorBridgeForTradeNoTimer(t) == timer

\* monitorBridgeForTrade(tradeId): `if (!tradeData) return`, else setTimeout
monitorBridgeForTrade(t) ==
    IF t \in activeTrades THEN [timer EXCEPT ![t] = "armed"] ELSE timer

\* a handler that holds its response back until the bridge watcher is done
executeTradeAwaitingBridge(t, ok) ==
    /\ req[t].pc = "executing"
    /\ tradeData' = [tradeData EXCEPT ![t].tradeExecuted = ok,
                                      ![t].error = ~ok]
    /\ timer' = monitorBridgeForTrade(t)
    /\ watcher' = [watcher EXCEPT ![t] = "polling"]
    /\ req' = [req EXCEPT ![t].pc = "awaitBridge",
                  ![t].execResult = IF ok THEN "ok" ELSE "failed"]
    /\ UNCHANGED <<now, server, sdk, chainVars, activeTrades, sl, cb, poll,
                   bridgeClaimed, completedEvents, lastPoll, audit>>

\* executeTrade after the venue answered: the flags are written to the
\* trade object the call captured, then monitorBridgeForTrade arms the 60 s
\* timer if the Map still holds the trade; the handler starts the bridge
\* watcher and sends its response.
executeTrade(t, ok) ==
    /\ req[t].pc = "executing"
    /\ tradeData' = [tradeData EXCEPT ![t].tradeExecuted = ok,
                                      ![t].error = ~ok]
    /\ timer' = monitorBridgeForTrade(t)
    /\ watcher' = [watcher EXCEPT ![t] = "polling"]
    /\ req' = [req EXCEPT ![t].pc = "done", ![t].resp = "200",
                  ![t].execResult = IF ok THEN "ok" ELSE "failed"]
    /\ UNCHANGED <<now, server, sdk, chainVars, activeTrades, sl, cb, poll,
                   bridgeClaimed, completedEvents,
                   lastPoll, audit>>

\* the 60 s timeout callback of monitorBridgeForTrade
TimerFire(t) ==
    /\ timer[t] = "armed"
    /\ timer' = [timer EXCEPT ![t] = "fired"]
    /\ sl' = IF TimeoutShouldSlash(t) THEN slashUser(t, TimerCaller) ELSE sl
    /\ UNCHANGED <<now, server, sdk, chainVars, activeTrades, tradeData, req, cb,
                   watcher, poll, bridgeClaimed, completedEvents,
                   lastPoll, audit>>

\* POST /test/slash/:tradeId, the k-th call for this trade.  A call for a
\* trade the Map does not hold returns at once and changes nothing.
AdminSlash(t, k) ==
    /\ sl[t][k] = "none"
    /\ \A j \in AdminCallers : j < k => sl[t][j] # "none"
    /\ t \in activeTrades
    /\ sl' = slashUser(t, k)
    /\ UNCHANGED <<now, server, sdk, chainVars, activeTrades, tradeData, req, timer, cb,
                   watcher, poll, bridgeClaimed, completedEvents,
                   lastPoll, audit>>

\* slashUser that does not look at isSlashed before sending the slash
SlashReadUnchecked(t, o) ==
    /\ sl[t][o] = "isSlashed"
    /\ sl' = [sl EXCEPT ![t][o] = "slash"]
    /\ UNCHANGED <<now, server, sdk, chainVars, activeTrades, tradeData, req,
                   timer, cb, watcher, poll, bridgeClaimed, completedEvents,
                   lastPoll, audit>>

\* slashUser: await stakingContract.isSlashed()
SlashRead(t, o) ==
    /\ sl[t][o] = "isSlashed"
    /\ sl' = [sl EXCEPT ![t][o] =
                 IF isSlashed[tradeData[t].stakingContract]
                    THEN "alreadySlashed" ELSE "slash"]
    /\ UNCHANGED <<now, server, sdk, chainVars, activeTrades, tradeData, req, timer, cb,
                   watcher, poll, bridgeClaimed, completedEvents,
                   lastPoll, audit>>

\* slashUser: await stakingContract.slash(reason): gas estimate and send
SlashSubmit(t, o, sendOk) ==
    /\ sl[t][o] = "slash"
    /\ sl' = [sl EXCEPT ![t][o] =
                 IF sendOk /\ CanSlash(tradeData[t].stakingContract)
                    THEN "sent" ELSE "failed"]
    /\ UNCHANGED <<now, server, sdk, chainVars, activeTrades, tradeData, req, timer, cb,
                   watcher, poll, bridgeClaimed, completedEvents,
                   lastPoll, audit>>

\* UserStaking.slash is mined: isSlashed = true, the stake goes to the
\* shared EOA; or it reverts and tx.wait() throws into slashUser's catch
SlashMine(t, o) ==
    /\ sl[t][o] = "sent"
    /\ IF CanSlash(tradeData[t].stakingContract)
          THEN /\ isSlashed' = [isSlashed EXCEPT
                                   ![tradeData[t].stakingContract] = TRUE]
               /\ balance' = [balance EXCEPT
                     ![tradeData[t].stakingContract] =
                         @ - stakedAmount[tradeData[t].stakingContract]]
               /\ sl' = [sl EXCEPT ![t][o] = "mined"]
          ELSE /\ sl' = [sl EXCEPT ![t][o] = "reverted"]
               /\ UNCHANGED <<isSlashed, balance>>
    /\ UNCHANGED <<now, server, sdk, userStakingContracts, deployedContracts,
                   stakedAmount, chainTrades, factoryBackend, stakingBackend,
                   stakingImpl,
                   activeTrades, tradeData, req, timer, cb, watcher, poll,
                   bridgeClaimed, completedEvents,
                   lastPoll, audit>>

\* slashUser called with the test endpoint's default reason by every caller
SlashReasonDefault(o) == "Test slashing"

\* the reason slashUser is called with: the timeout callback's, or the test
\* endpoint's `reason || "Test slashing"`
SlashReason(o) ==
    IF o = TimerCaller THEN "Bridge failed after trade execution"
                       ELSE "Test slashing"

\* the "[AUDIT] Slashing details" record; the transaction is identified by
\* the invocation that sent it
AuditRecord(t, o) ==
    [tradeId |-> t, user |-> tradeData[t].user, amount |-> tradeData[t].amount,
     reason |-> SlashReason(o), txHash |-> <<t, o>>]

\* slashUser that goes on to the delete and the audit log after a revert
SlashReceiptAfterRevert(t, o) ==
    /\ sl[t][o] \in {"mined", "reverted"}
    /\ activeTrades' = activeTrades \ {t}
    /\ audit' = audit \cup {AuditRecord(t, o)}
    /\ sl' = [sl EXCEPT ![t][o] = "slashed"]
    /\ UNCHANGED <<now, server, sdk, chainVars, tradeData, req, timer, cb, watcher,
                   poll, lastPoll, bridgeClaimed, completedEvents>>

\* slashUser after tx.wait(): activeTrades.delete(tradeId) and the audit log
SlashReceipt(t, o) ==
    /\ sl[t][o] = "mined"
    /\ activeTrades' = activeTrades \ {t}
    /\ audit' = audit \cup {AuditRecord(t, o)}
    /\ sl' = [sl EXCEPT ![t][o] = "slashed"]
    /\ UNCHANGED <<now, server, sdk, chainVars, tradeData, req, timer, cb, watcher,
                   poll, lastPoll, bridgeClaimed, completedEvents>>

\* POST /test/slash/:tradeId answers once slashUser returned; slashUser
\* returns silently for an unknown trade and for a slashed contract and
\* catches its own errors, so the handler's catch (500) is never entered and
\* the answer is { success: true, "User slashed (REAL TX)" }
AdminSlashResponse(t, k) ==
    IF sl[t][k] \in SlashFinal THEN "success" ELSE "none"

\* POST /test/complete-bridge/:tradeId, the k-th call for this trade.  A
\* call for a trade the Map does not hold returns at once, nothing changed.
AdminComplete(t, k) ==
    /\ cb[t][k] = "none"
    /\ \A j \in AdminCallers : j < k => cb[t][j] # "none"
    /\ t \in activeTrades
    /\ cb' = completeBridge(t, k)
    /\ tradeData' = completeBridgeMark(tradeData, t)
    /\ UNCHANGED <<now, server, sdk, chainVars, activeTrades, req, timer, sl, watcher,
                   poll, bridgeClaimed, completedEvents,
                   lastPoll, audit>>

\* POST /test/complete-bridge/:tradeId answers once completeBridge returned;
\* completeBridge catches its own errors, so the handler's catch (500) is
\* never entered and the answer is { success: true, "Bridge marked as
\* completed (REAL TX)" }
AdminCompleteResponse(t, k) ==
    IF cb[t][k] \in CompleteFinal THEN "success" ELSE "none"

\* completeBridge: await stakingContract.completeTrade(tradeId): estimate, send
CompleteSubmit(t, o, sendOk) ==
    /\ cb[t][o] = "completeTrade"
    /\ cb' = [cb EXCEPT ![t][o] =
                 IF sendOk /\ CanCompleteTrade(tradeData[t].stakingContract, t)
                    THEN "sent" ELSE "failed"]
    /\ UNCHANGED <<now, server, sdk, chainVars, activeTrades, tradeData, req, timer, sl,
                   watcher, poll, bridgeClaimed, completedEvents,
                   lastPoll, audit>>

\* UserStaking.completeTrade is mined (emits TradeCompleted) or reverts
CompleteMine(t, o) ==
    /\ cb[t][o] = "sent"
    /\ IF CanCompleteTrade(tradeData[t].stakingContract, t)
          THEN /\ chainTrades' = [chainTrades EXCEPT
                                   ![tradeData[t].stakingContract] = @ \ {t}]
               /\ completedEvents' = completedEvents \cup {t}
               /\ cb' = [cb EXCEPT ![t][o] = "mined"]
          ELSE /\ cb' = [cb EXCEPT ![t][o] = "reverted"]
               /\ UNCHANGED <<chainTrades, completedEvents>>
    /\ UNCHANGED <<now, server, sdk, userStakingContracts, deployedContracts,
                   stakedAmount, isSlashed, balance, factoryBackend,
                   stakingBackend, stakingImpl,
                   activeTrades, tradeData, req, timer, sl, watcher, poll,
                   bridgeClaimed,
                   lastPoll, audit>>

\* completeBridge that deletes the trade as soon as the transaction is sent
CompleteReceiptUnconfirmed(t, o) ==
    /\ cb[t][o] = "sent"
    /\ activeTrades' = activeTrades \ {t}
    /\ cb' = [cb EXCEPT ![t][o] = "completed"]
    /\ UNCHANGED <<now, server, sdk, chainVars, tradeData, req, timer, sl, watcher,
                   poll, lastPoll, audit, bridgeClaimed, completedEvents>>

\* completeBridge after tx.wait(): activeTrades.delete(tradeId)
CompleteReceipt(t, o) ==
    /\ cb[t][o] = "mined"
    /\ activeTrades' = activeTrades \ {t}
    /\ cb' = [cb EXCEPT ![t][o] = "completed"]
    /\ UNCHANGED <<now, server, sdk, chainVars, tradeData, req, timer, sl, watcher,
                   poll, bridgeClaimed, completedEvents,
                   lastPoll, audit>>

\* startEventMonitoring: the TradeCompleted listener deletes the trade
OnTradeCompleted(t) ==
    /\ t \in completedEvents
    /\ completedEvents' = completedEvents \ {t}
    /\ activeTrades' = activeTrades \ {t}
    /\ UNCHANGED <<now, server, sdk, chainVars, tradeData, req, timer, sl, cb, watcher,
                   poll, bridgeClaimed,
                   lastPoll, audit>>

\* getTradeStatus(tradeId): { exists: false } for a trade the Map does not
\* hold, else the record's user and amount (GET /trade/status answers 404
\* when exists is false)
getTradeStatus(t) ==
    IF t \in activeTrades
       THEN [exists |-> TRUE, user |-> tradeData[t].user,
             amount |-> tradeData[t].amount]
       ELSE [exists |-> FALSE, user |-> ZeroAddress, amount |-> 0]

\* ------------------------------------------------------------- the bridge
\* the destination chain claims the transfer (a Claimed event is emitted)
BridgeClaim(t) ==
    /\ req[t].bridge = "ok"
    /\ ~bridgeClaimed[t]
    /\ bridgeClaimed' = [bridgeClaimed EXCEPT ![t] = TRUE]
    /\ UNCHANGED <<now, server, sdk, chainVars, activeTrades, tradeData, req, timer, sl,
                   cb, watcher, poll, completedEvents,
                   lastPoll, audit>>

\* hyperGate.filters.Claimed(debridgeId): a null id is a wildcard topic
ClaimedEventFound(id) ==
    IF id = 0 THEN \E t \in TradeIds : bridgeClaimed[t] ELSE bridgeClaimed[id]

\* the status the deBridge API reports for a transfer, when it answers
ApiStatus(id) == IF id # 0 /\ bridgeClaimed[id] THEN "Claimed" ELSE "Pending"

\* a poll that takes a failed Claimed event query for a completed bridge
monitorBridgePollFailureCompletes(id, apiOk, chainOk) ==
    IF apiOk /\ ApiStatus(id) \in {"Claimed", "Completed"} THEN "success"
    ELSE IF ~chainOk THEN "success"
    ELSE IF ClaimedEventFound(id) THEN "success"
    ELSE "pending"

\* one iteration of DeBridgeService.monitorBridgeCompletion: the status API
\* (a failed request is `.catch(() => null)`), then the Claimed event query
\* (a failed query throws into the loop's catch); "success" ends the loop
monitorBridgePoll(id, apiOk, chainOk) ==
    IF apiOk /\ ApiStatus(id) \in {"Claimed", "Completed"} THEN "success"
    ELSE IF ~chainOk THEN "error"
    ELSE IF ClaimedEventFound(id) THEN "success"
    ELSE "pending"

\* server monitorBridgeCompletion: one poll of
\* DeBridgeService.monitorBridgeCompletion; when it reports success the
\* server calls tradeMonitor.completeBridge(tradeId), else the loop sleeps
\* and polls again
WatcherPoll(t, apiOk, chainOk) ==
    /\ watcher[t] = "polling"
    /\ LET r == monitorBridgePoll(req[t].debridgeId, apiOk, chainOk)
       IN /\ lastPoll' = [lastPoll EXCEPT ![t] = r]
          /\ IF r = "success"
                THEN /\ watcher' = [watcher EXCEPT ![t] = "completed"]
                     /\ cb' = completeBridge(t, WatcherCaller)
                     /\ tradeData' = completeBridgeMark(tradeData, t)
                ELSE UNCHANGED <<watcher, cb, tradeData>>
    /\ UNCHANGED <<now, server, sdk, chainVars, activeTrades, req, timer, sl, poll,
                   audit, bridgeClaimed, completedEvents>>

\* DeBridgeService.monitorBridgeCompletion: 60 s passed, "Bridge completion
\* timeout"; the server only logs it
WatcherTimeout(t) ==
    /\ watcher[t] = "polling"
    /\ watcher' = [watcher EXCEPT ![t] = "timedOut"]
    /\ UNCHANGED <<now, server, sdk, chainVars, activeTrades, tradeData, req, timer, sl,
                   cb, poll, bridgeClaimed, completedEvents,
                   lastPoll, audit>>

\* -------------------------------------------------- monitorTrades (2 s tick)
\* monitorTrades asking the bridge about records without a debridgeId too
NeedsBridgeStatusAnyRecord(t) == ~tradeData[t].bridgeCompleted

\* the loop condition of monitorTrades for one Map entry
NeedsBridgeStatus(t) ==
    tradeData[t].debridgeId # 0 /\ ~tradeData[t].bridgeCompleted

\* the Map is iterated in insertion order; the loop runs on until an entry
\* makes it await getBridgeStatus.  0: the iteration is over.
NextPolled(after, live) ==
    LET cand == {t \in live : tradeData[t].startTime > after
                               /\ NeedsBridgeStatus(t)}
    IN IF cand = {} THEN 0
       ELSE CHOOSE t \in cand :
              \A t2 \in cand : tradeData[t].startTime <= tradeData[t2].startTime

PollFrom(after, live) ==
    LET n == NextPolled(after, live)
    IN IF n = 0 THEN [pc |-> "idle", cur |-> 0]
       ELSE [pc |-> "getBridgeStatus", cur |-> n]

\* setInterval(() => this.monitorTrades(), POLL_INTERVAL): a tick starts
\* whether or not an earlier one is still awaiting
PollTick(p) ==
    /\ poll[p].pc = "idle"
    /\ \A q \in Pollers : q < p => poll[q].pc # "idle"
    /\ NextPolled(0, activeTrades) # 0
    /\ poll' = [poll EXCEPT ![p] = PollFrom(0, activeTrades)]
    /\ UNCHANGED <<now, server, sdk, chainVars, activeTrades, tradeData, req, timer, sl,
                   cb, watcher, lastPoll, audit, bridgeClaimed, completedEvents>>

\* DeBridgeService.getBridgeStatus: with the API up, status is the response
\* body (an object); with the API down, checkBridgeFulfillment gives
\* "Claimed" or "Pending" (a failed event query counts as not fulfilled)
getBridgeStatus(id, apiOk, chainOk) ==
    IF apiOk THEN "object"
    ELSE IF chainOk /\ ClaimedEventFound(id) THEN "Claimed" ELSE "Pending"

\* monitorTrades after await getBridgeStatus(...)
PollStatus(p, apiOk, chainOk) ==
    /\ poll[p].pc = "getBridgeStatus"
    /\ LET t == poll[p].cur
           st == getBridgeStatus(tradeData[t].debridgeId, apiOk, chainOk)
       IN IF st \in {"Claimed", "Completed"}
             THEN /\ cb' = completeBridge(t, PollCaller(p))
                  /\ tradeData' = completeBridgeMark(tradeData, t)
                  /\ poll' = [poll EXCEPT
                                  ![p] = [pc |-> "completeBridge", cur |-> t]]
             ELSE /\ poll' = [poll EXCEPT ![p] =
                                  PollFrom(tradeData[t].startTime, activeTrades)]
                  /\ UNCHANGED <<cb, tradeData>>
    /\ UNCHANGED <<now, server, sdk, chainVars, activeTrades, req, timer, sl, watcher,
                   lastPoll, audit, bridgeClaimed, completedEvents>>

\* monitorTrades after await this.completeBridge(tradeId)
PollResume(p) ==
    /\ poll[p].pc = "completeBridge"
    /\ cb[poll[p].cur][PollCaller(p)] \in CompleteFinal
    /\ poll' = [poll EXCEPT ![p] =
                    PollFrom(tradeData[poll[p].cur].startTime, activeTrades)]
    /\ UNCHANGED <<now, server, sdk, chainVars, activeTrades, tradeData, req, timer, sl,
                   cb, watcher, lastPoll, audit, bridgeClaimed, completedEvents>>

\* ------------------------------------------------------------------- Next
Next ==
    \/ \E t \in TradeIds, u \in Users, a \in 0..MaxAmount : InitiateReal(t, u, a)
    \/ \E t \in TradeIds, u \in Users, a \in 0..MaxAmount : InitiateDemo(t, u, a)
    \/ \E r \in Requests : RegHasStakingContract(r)
    \/ \E r \in Requests : RegGetUserStakingContract(r)
    \/ \E r \in Requests : RegGetStatus(r)
    \/ \E r \in Requests : RegHasSufficientStake(r)
    \/ \E r \in Requests : RegTradeExists(r)
    \/ \E r \in Requests, sendOk \in BOOLEAN : RegSubmit(r, sendOk)
    \/ \E r \in Requests : RegMine(r)
    \/ \E r \in Requests : RegStore(r)
    \/ \E t \in TradeIds, ok \in BOOLEAN, id \in {0} \cup TradeIds :
          BridgeResult(t, ok, id)
    \/ \E t \in TradeIds, ok \in BOOLEAN : executeTrade(t, ok)
    \/ \E t \in TradeIds : TimerFire(t)
    \/ \E t \in TradeIds, k \in AdminCallers : AdminSlash(t, k)
    \/ \E t \in TradeIds, o \in SlashOrigins : SlashRead(t, o)
    \/ \E t \in TradeIds, o \in SlashOrigins, sendOk \in BOOLEAN :
          SlashSubmit(t, o, sendOk)
    \/ \E t \in TradeIds, o \in SlashOrigins : SlashMine(t, o)
    \/ \E t \in TradeIds, o \in SlashOrigins : SlashReceipt(t, o)
    \/ \E t \in TradeIds, k \in AdminCallers : AdminComplete(t, k)
    \/ \E t \in TradeIds, o \in CompleteOrigins, sendOk \in BOOLEAN :
          CompleteSubmit(t, o, sendOk)
    \/ \E t \in TradeIds, o \in CompleteOrigins : CompleteMine(t, o)
    \/ \E t \in TradeIds, o \in CompleteOrigins : CompleteReceipt(t, o)
    \/ \E t \in TradeIds : OnTradeCompleted(t)
    \/ \E t \in TradeIds : BridgeClaim(t)
    \/ \E t \in TradeIds, apiOk \in BOOLEAN, chainOk \in BOOLEAN :
          WatcherPoll(t, apiOk, chainOk)
    \/ \E t \in TradeIds : WatcherTimeout(t)
    \/ \E p \in Pollers : PollTick(p)
    \/ \E p \in Pollers, apiOk \in BOOLEAN, chainOk \in BOOLEAN :
          PollStatus(p, apiOk, chainOk)
    \/ \E p \in Pollers : PollResume(p)

Spec == Init /\ [][Next]_vars

\* ------------------------------------------------------------ fair scheduling
\* The event loop runs every callback that is ready: the watcher's loop polls
\* again after its 2 s sleep until it returns, setInterval starts
\* monitorTrades again and again and its awaits resume, the deadline timer
\* fires, a transaction that was sent is mined and its receipt is delivered,
\* and an emitted event reaches its listener.  The status API and the RPC
\* node answer (apiOk, chainOk) and the node accepts a transaction whose
\* estimate passes (sendOk).
Fairness ==
    /\ \A t \in TradeIds :
          /\ WF_vars(WatcherPoll(t, TRUE, TRUE))
          /\ WF_vars(TimerFire(t))
          /\ WF_vars(OnTradeCompleted(t))
          /\ \A o \in CompleteOrigins :
                /\ WF_vars(CompleteSubmit(t, o, TRUE))
                /\ WF_vars(CompleteMine(t, o))
                /\ WF_vars(CompleteReceipt(t, o))
          /\ \A o \in SlashOrigins :
                /\ WF_vars(SlashRead(t, o))
                /\ WF_vars(SlashSubmit(t, o, TRUE))
                /\ WF_vars(SlashMine(t, o))
                /\ WF_vars(SlashReceipt(t, o))
    /\ \A p \in Pollers :
          /\ WF_vars(PollTick(p))
          /\ WF_vars(PollStatus(p, TRUE, TRUE))
          /\ WF_vars(PollResume(p))

SpecLive == Init /\ [][Next]_vars /\ Fairness

\* ------------------------------------------- registerTrade called directly
\* TradeMonitor.registerTrade under callers that choose the trade id
InitReg == Init /\ server = "real"

NextReg ==
    \/ \E r \in Requests, u \in Users, t \in TradeIds, a \in 0..MaxAmount :
          RegisterTradeCall(r, u, t, a)
    \/ \E r \in Requests : RegHasStakingContract(r)
    \/ \E r \in Requests : RegGetUserStakingContract(r)
    \/ \E r \in Requests : RegGetStatus(r)
    \/ \E r \in Requests : RegHasSufficientStake(r)
    \/ \E r \in Requests : RegTradeExists(r)
    \/ \E r \in Requests, sendOk \in BOOLEAN : RegSubmit(r, sendOk)
    \/ \E r \in Requests : RegMine(r)
    \/ \E r \in Requests : RegStore(r)

SpecReg == InitReg /\ [][NextReg]_vars

\* registerTrade called when some staking contracts were slashed before (a
\* slash needs stakedAmount > 0 and leaves stakedAmount as it is)
InitStake ==
    /\ server = "real"
    /\ userStakingContracts \in [Users -> {ZeroAddress} \cup Contracts]
    /\ \A u \in Users : userStakingContracts[u] \in {ZeroAddress, u}
    /\ deployedContracts = DeployedBy(userStakingContracts, MaxUsers)
    /\ stakedAmount \in [Contracts -> 0..MaxStake]
    /\ \A c \in Contracts :
          userStakingContracts[c] = ZeroAddress => stakedAmount[c] = 0
    /\ isSlashed \in [Contracts -> BOOLEAN]
    /\ \A c \in Contracts : isSlashed[c] => stakedAmount[c] > 0
    /\ chainTrades = [c \in Contracts |-> {}]
    /\ activeTrades = {}
    /\ tradeData = [t \in TradeIds |-> NoTrade]
    /\ now = 1
    /\ req = [r \in Requests |-> NoReq]
    /\ timer = [t \in TradeIds |-> "unset"]
    /\ sl = [t \in TradeIds |-> [o \in SlashOrigins |-> "none"]]
    /\ cb = [t \in TradeIds |-> [o \in CompleteOrigins |-> "none"]]
    /\ watcher = [t \in TradeIds |-> "off"]
    /\ poll = [p \in Pollers |-> [pc |-> "idle", cur |-> 0]]
    /\ lastPoll = [t \in TradeIds |-> "none"]
    /\ audit = {}
    /\ bridgeClaimed = [t \in TradeIds |-> FALSE]
    /\ completedEvents = {}
    /\ balance = [c \in Contracts |->
                     IF isSlashed[c] THEN 0 ELSE stakedAmount[c]]
    /\ factoryBackend = Backend
    /\ stakingImpl = "UserStaking"
    /\ stakingBackend = [c \in Contracts |->
          IF userStakingContracts[c] # ZeroAddress THEN Backend
          ELSE ZeroAddress]
    /\ sdk = NoSdk

SpecStake == InitStake /\ [][NextReg]_vars

\* ----------------------------------------- the contracts, called directly
\* the backend's variables, untouched by the contracts
monitorVars == <<server, sdk, activeTrades, tradeData, now, req, timer, sl, cb,
                 watcher, poll, lastPoll, audit, bridgeClaimed,
                 completedEvents>>

\* Factory.hasStakingContract(_user)
hasStakingContract(u) == userStakingContracts[u] # ZeroAddress

\* Factory.getUserStakingContract(_user)
getUserStakingContract(u) == userStakingContracts[u]

\* Factory.getTotalContracts()
getTotalContracts == Len(deployedContracts)

\* deployStakingContract without its first require
deployStakingContractAgain(u, v) ==
    /\ v # ZeroAddress
    /\ Len(deployedContracts) < MaxUsers + 1
    /\ userStakingContracts' = [userStakingContracts EXCEPT ![u] = u]
    /\ deployedContracts' = Append(deployedContracts, u)
    /\ stakingBackend' = [stakingBackend EXCEPT ![u] = factoryBackend]
    /\ UNCHANGED <<stakedAmount, isSlashed, chainTrades, balance,
                   factoryBackend, stakingImpl, monitorVars>>

\* Factory.deployStakingContract(_validator), msg.sender = u: reverts if
\* the caller has a contract or the validator is address(0)
deployStakingContract(u, v) ==
    /\ userStakingContracts[u] = ZeroAddress
    /\ v # ZeroAddress
    /\ userStakingContracts' = [userStakingContracts EXCEPT ![u] = u]
    /\ deployedContracts' = Append(deployedContracts, u)
    /\ stakingBackend' = [stakingBackend EXCEPT ![u] = factoryBackend]
    /\ UNCHANGED <<stakedAmount, isSlashed, chainTrades, balance,
                   factoryBackend, stakingImpl, monitorVars>>

\* modifier onlyUser of the contract of user u
onlyUser(s, u) == s = u

\* onlyBackend comparing with the factory's current backend
onlyBackendCurrent(s, c) == s = factoryBackend

\* modifier onlyBackend of contract c
onlyBackend(s, c) == s = stakingBackend[c]

\* notSlashed that lets every call through
notSlashedIgnored(c) == TRUE

\* modifier notSlashed
notSlashed(c) == ~isSlashed[c]

\* UserStaking.getStatus() of contract c: (stakedAmount, !isSlashed)
getStatus(c) == [stakedAmount |-> stakedAmount[c], isActive |-> ~isSlashed[c]]

\* UserStaking.depositAndStake() of user u's contract, msg.sender = s,
\* msg.value = v: onlyUser, notSlashed, msg.value > 0
depositAndStake(s, u, v) ==
    /\ userStakingContracts[u] # ZeroAddress
    /\ onlyUser(s, u)
    /\ notSlashed(u)
    /\ v > 0
    /\ balance[u] + v <= MaxDeposit
    /\ stakedAmount' = [stakedAmount EXCEPT ![u] = @ + v]
    /\ balance' = [balance EXCEPT ![u] = @ + v]
    /\ UNCHANGED <<userStakingContracts, deployedContracts, isSlashed,
                   chainTrades, factoryBackend,
                   stakingBackend, stakingImpl, monitorVars>>

\* UserStaking.withdraw() of user u's contract, msg.sender = s: onlyUser,
\* notSlashed, stakedAmount > 0; stakedAmount is zeroed and the whole stake
\* is transferred to the user
withdraw(s, u) ==
    /\ stakingImpl = "UserStaking"
    /\ userStakingContracts[u] # ZeroAddress
    /\ onlyUser(s, u)
    /\ notSlashed(u)
    /\ stakedAmount[u] > 0
    /\ balance[u] >= stakedAmount[u]
    /\ stakedAmount' = [stakedAmount EXCEPT ![u] = 0]
    /\ balance' = [balance EXCEPT ![u] = @ - stakedAmount[u]]
    /\ UNCHANGED <<userStakingContracts, deployedContracts, isSlashed,
                   chainTrades, factoryBackend,
                   stakingBackend, stakingImpl, monitorVars>>

\* UserStaking.registerTrade(_tradeId) of contract c, msg.sender = s:
\* onlyBackend, notSlashed, trade not registered
registerTrade(s, c, t) ==
    /\ userStakingContracts[c] # ZeroAddress
    /\ onlyBackend(s, c)
    /\ CanRegisterTrade(c, t)
    /\ chainTrades' = [chainTrades EXCEPT ![c] = @ \cup {t}]
    /\ UNCHANGED <<userStakingContracts, deployedContracts, stakedAmount,
                   isSlashed, balance, factoryBackend,
                   stakingBackend, stakingImpl, monitorVars>>

\* UserStaking.completeTrade(_tradeId) of contract c, msg.sender = s:
\* onlyBackend, trade registered
completeTrade(s, c, t) ==
    /\ userStakingContracts[c] # ZeroAddress
    /\ onlyBackend(s, c)
    /\ CanCompleteTrade(c, t)
    /\ chainTrades' = [chainTrades EXCEPT ![c] = @ \ {t}]
    /\ UNCHANGED <<userStakingContracts, deployedContracts, stakedAmount,
                   isSlashed, balance, factoryBackend,
                   stakingBackend, stakingImpl, monitorVars>>

\* UserStaking.slash(_reason) of contract c, msg.sender = s: onlyBackend,
\* notSlashed, stakedAmount > 0; isSlashed is set and stakedAmount wei are
\* transferred to the shared EOA, the field stakedAmount is left as it is.
\* MinimalStaking.slash() / slashWithReason: onlyBackend, stakedAmount > 0;
\* isSlashed is set, stakedAmount is zeroed and sent to the backend
slash(s, c) ==
    /\ userStakingContracts[c] # ZeroAddress
    /\ onlyBackend(s, c)
    /\ CanSlash(c)
    /\ isSlashed' = [isSlashed EXCEPT ![c] = TRUE]
    /\ balance' = [balance EXCEPT ![c] = @ - stakedAmount[c]]
    /\ stakedAmount' = IF stakingImpl = "MinimalStaking"
                          THEN [stakedAmount EXCEPT ![c] = 0]
                          ELSE stakedAmount
    /\ UNCHANGED <<userStakingContracts, deployedContracts,
                   chainTrades, factoryBackend,
                   stakingBackend, stakingImpl, monitorVars>>

\* UserStaking.receive(): a plain transfer of v wei to contract c
receive(s, c, v) ==
    /\ stakingImpl = "UserStaking"
    /\ userStakingContracts[c] # ZeroAddress
    /\ v > 0
    /\ balance[c] + v <= MaxDeposit
    /\ balance' = [balance EXCEPT ![c] = @ + v]
    /\ UNCHANGED <<userStakingContracts, deployedContracts, stakedAmount,
                   isSlashed, chainTrades, factoryBackend,
                   stakingBackend, stakingImpl, monitorVars>>

\* Factory.updateBackend(_newBackend), msg.sender = s: only the current
\* backend, not address(0); contracts already deployed keep theirs
updateBackend(s, b) ==
    /\ stakingImpl = "UserStaking"
    /\ s = factoryBackend
    /\ b # ZeroAddress
    /\ factoryBackend' = b
    /\ UNCHANGED <<userStakingContracts, deployedContracts, stakedAmount,
                   isSlashed, chainTrades, balance, stakingBackend,
                   stakingImpl, monitorVars>>

\* the factory right after its constructor: no staking contract yet
InitChain ==
    /\ server = "real"
    /\ userStakingContracts = [u \in Users |-> ZeroAddress]
    /\ deployedContracts = <<>>
    /\ stakedAmount = [c \in Contracts |-> 0]
    /\ isSlashed = [c \in Contracts |-> FALSE]
    /\ chainTrades = [c \in Contracts |-> {}]
    /\ activeTrades = {}
    /\ tradeData = [t \in TradeIds |-> NoTrade]
    /\ now = 1
    /\ req = [r \in Requests |-> NoReq]
    /\ timer = [t \in TradeIds |-> "unset"]
    /\ sl = [t \in TradeIds |-> [o \in SlashOrigins |-> "none"]]
    /\ cb = [t \in TradeIds |-> [o \in CompleteOrigins |-> "none"]]
    /\ watcher = [t \in TradeIds |-> "off"]
    /\ poll = [p \in Pollers |-> [pc |-> "idle", cur |-> 0]]
    /\ lastPoll = [t \in TradeIds |-> "none"]
    /\ audit = {}
    /\ bridgeClaimed = [t \in TradeIds |-> FALSE]
    /\ completedEvents = {}
    /\ balance = [c \in Contracts |-> 0]
    /\ factoryBackend = Backend
    /\ stakingImpl \in {"UserStaking", "MinimalStaking"}
    /\ stakingBackend = [c \in Contracts |-> ZeroAddress]
    /\ sdk = NoSdk

NextChain ==
    \/ \E u \in Users, v \in {ZeroAddress} \cup Users :
          deployStakingContract(u, v)
    \/ \E s \in Senders, u \in Users, v \in 0..MaxDeposit :
          depositAndStake(s, u, v)
    \/ \E s \in Senders, u \in Users : withdraw(s, u)
    \/ \E s \in Senders, c \in Contracts, t \in TradeIds :
          registerTrade(s, c, t)
    \/ \E s \in Senders, c \in Contracts, t \in TradeIds :
          completeTrade(s, c, t)
    \/ \E s \in Senders, c \in Contracts : slash(s, c)
    \/ \E s \in Senders, c \in Contracts, v \in 1..MaxDeposit :
          receive(s, c, v)
    \/ \E s \in Senders, b \in {ZeroAddress} \cup Senders :
          updateBackend(s, b)

SpecChain == InitChain /\ [][NextChain]_vars

\* ------------------------------------- TradeMonitor's methods called directly
\* TradeMonitor.setDebridgeId(tradeId, debridgeId) called by any caller
SetDebridgeIdCall(t, id) ==
    /\ tradeData' = setDebridgeId(tradeData, t, id)
    /\ UNCHANGED <<now, server, sdk, chainVars, activeTrades, req, timer, sl, cb,
                   watcher, poll, lastPoll, audit, bridgeClaimed,
                   completedEvents>>

NextMon ==
    \/ NextReg
    \/ \E t \in TradeIds, id \in 0..MaxDebridgeId : SetDebridgeIdCall(t, id)

SpecMon == InitReg /\ [][NextMon]_vars

\* ----------------------------------------------------------- observations
\* slashUser(t) by caller o got its slash transaction accepted by the node
SlashSubmitted(t, o) == sl[t][o] \in {"sent", "mined", "reverted", "slashed"}

\* the slash of trade t is confirmed on chain
SlashConfirmed(t) == \E o \in SlashOrigins : sl[t][o] \in {"mined", "slashed"}

\* the completeTrade of trade t is confirmed on chain
SettleConfirmed(t) ==
    \E o \in CompleteOrigins : cb[t][o] \in {"mined", "completed"}

\* -------------------------------------------------------------------- C1
\* C1: under every interleaving of completeBridge (bridge watcher,
\* monitorTrades tick, POST /test/complete-bridge) and slashUser (timeout,
\* POST /test/slash), a trade never has both a confirmed completeTrade and a
\* confirmed slash.
C1_SettledXorSlashed ==
    \A t \in TradeIds : ~(SettleConfirmed(t) /\ SlashConfirmed(t))

\* -------------------------------------------------------------------- C2
\* C2: whatever the interleaving of slashUser invocations for one trade, at
\* most one of them ever submits a slash transaction.
C2_AtMostOneSlashSubmitted ==
    \A t \in TradeIds :
        Cardinality({o \in SlashOrigins : SlashSubmitted(t, o)}) <= 1

\* -------------------------------------------------------------------- C3
\* C3: a slash transaction is submitted for a trade only if the trade has
\* tradeExecuted = true (tradeExecuted is written once, so a trade without
\* it at that point was never executed before).
C3_SlashedOnlyIfExecuted ==
    \A t \in TradeIds : \A o \in SlashOrigins :
        SlashSubmitted(t, o) => tradeData[t].tradeExecuted

C5_TimeoutSlashesOnce ==
    [][\A t \in TradeIds :
         /\ (t \in activeTrades' /\ tradeData'[t].tradeExecuted) =>
               timer'[t] \in {"armed", "fired"}
         /\ (timer[t] = "armed" /\ timer'[t] = "fired"
               /\ tradeData[t].tradeExecuted
               /\ ~tradeData[t].bridgeCompleted) =>
               /\ sl[t][TimerCaller] = "none"
               /\ sl'[t][TimerCaller] \in {"isSlashed", "noTrade"}
         /\ ~(timer[t] = "armed" /\ timer'[t] = "fired") =>
               /\ sl[t][TimerCaller] = "none" => sl'[t][TimerCaller] = "none"
               /\ timer[t] = "fired" => timer'[t] = "fired"]_vars

C5_Witness ==
    \E t \in TradeIds :
        /\ req[t].execResult = "ok"
        /\ timer[t] = "fired"
        /\ ~tradeData[t].bridgeCompleted
        /\ sl[t][TimerCaller] = "slashed"

\* -------------------------------------------------------------------- C6
\* C6: a POST /trade/initiate of a user whose stake check must fail (no
\* staking contract, or less staked than the trade amount) leaves no
\* registry record and starts no bridge and no venue execution.
StakeCheckMustFail(r) ==
    /\ req[r].via = "server"
    /\ ~MissingParameters(req[r].user, req[r].amount)
    /\ \/ userStakingContracts[req[r].user] = ZeroAddress
       \/ stakedAmount[userStakingContracts[req[r].user]] < req[r].amount

C6_NoEntryOnFailedRegistration ==
    \A t \in TradeIds :
        StakeCheckMustFail(t) =>
            /\ tradeData[t] = NoTrade
            /\ req[t].bridge = "none"
            /\ req[t].execResult = "none"

\* -------------------------------------------------------------------- C7
\* C7: of two registerTrade calls with the same tradeId (same user or
\* different users, one after the other or overlapping) at most one
\* succeeds.
C7_SecondRegistrationFails ==
    \A r1 \in Requests : \A r2 \in Requests :
        (r1 # r2 /\ req[r1].tradeId # 0 /\ req[r1].tradeId = req[r2].tradeId)
            => ~(req[r1].resp = "success" /\ req[r2].resp = "success")

\* -------------------------------------------------------------------- C8
\* C8: when initiateBridge returns a failure, POST /trade/initiate answers
\* 500 "Bridge initiation failed", the venue execution is never invoked and
\* neither the bridge watcher nor the deadline timer is started.
C8_BridgeFailureStopsRequest ==
    \A t \in TradeIds :
        req[t].bridge = "failed" =>
            /\ req[t].pc = "done"
            /\ req[t].resp = "500"
            /\ req[t].error = "Bridge initiation failed"
            /\ req[t].execResult = "none"
            /\ ~tradeData[t].tradeExecuted
            /\ timer[t] = "unset"
            /\ watcher[t] = "off"

C8_Witness ==
    \E t \in TradeIds :
        req[t].bridge = "failed" /\ req[t].resp = "500" /\ t \in activeTrades

\* -------------------------------------------------------------------- C9
\* C9: the venue execution of a request is invoked only after the stake
\* verification (hasSufficientStake) succeeded earlier in the same request.
C9_ExecutionOnlyAfterVerification ==
    \A t \in TradeIds :
        (req[t].pc = "executing" \/ req[t].execResult # "none") =>
            req[t].verified

\* ------------------------------------------------------------------- C10
\* C10: when the venue execution fails, the record gets tradeExecuted =
\* false and its error set, and the bridge watcher and the deadline timer are
\* started as they are for a successful execution; a bridge completion seen
\* afterwards still calls completeBridge (bridgeCompleted = true, the
\* completeTrade call), and its confirmation removes the trade.
C10_FailedExecutionStillMonitored ==
    [][\A t \in TradeIds :
         /\ (req[t].pc = "executing" /\ req'[t].pc = "done") =>
               /\ tradeData'[t].tradeExecuted = (req'[t].execResult = "ok")
               /\ tradeData'[t].error = (req'[t].execResult = "failed")
               /\ watcher'[t] = "polling"
               /\ t \in activeTrades => timer'[t] = "armed"
         /\ (req[t].execResult = "failed" /\ t \in activeTrades
               /\ watcher[t] = "polling" /\ watcher'[t] = "completed") =>
               /\ cb'[t][WatcherCaller] = "completeTrade"
               /\ tradeData'[t].bridgeCompleted
         /\ (req[t].execResult = "failed"
               /\ \E o \in CompleteOrigins :
                     cb[t][o] = "mined" /\ cb'[t][o] = "completed") =>
               t \notin activeTrades']_vars

C10_Witness ==
    \E t \in TradeIds :
        /\ req[t].execResult = "failed"
        /\ tradeData[t].error
        /\ cb[t][WatcherCaller] = "completed"
        /\ t \notin activeTrades

\* ------------------------------------------------------------------- C11
\* completeBridge's completeTrade transaction was accepted by the node
CompleteSubmitted(t, o) ==
    cb[t][o] \in {"sent", "mined", "reverted", "completed"}

\* C11: a completeBridge call that finds the trade marks it bridgeCompleted
\* in the step it starts, submits completeTrade only afterwards, and removes
\* the trade only in the step that follows the confirmation (mined); no
\* other step of a completeBridge call changes the registry.
C11_CompleteBridgeOrder ==
    [][\A t \in TradeIds : \A o \in CompleteOrigins :
         /\ (cb[t][o] = "none" /\ cb'[t][o] = "completeTrade") =>
               tradeData'[t].bridgeCompleted /\ t \in activeTrades'
         /\ (cb[t][o] = "completeTrade" /\ cb'[t][o] = "sent") =>
               tradeData[t].bridgeCompleted
         /\ (cb'[t][o] = "completed" /\ cb[t][o] # "completed") =>
               cb[t][o] = "mined" /\ t \notin activeTrades'
         /\ (cb'[t][o] # cb[t][o] /\ cb'[t][o] # "completed") =>
               activeTrades' = activeTrades]_vars

C11_Witness ==
    \E t \in TradeIds : \E o \in CompleteOrigins :
        /\ cb[t][o] = "completed"
        /\ tradeData[t].bridgeCompleted
        /\ t \notin activeTrades
        /\ ~SlashConfirmed(t)

\* ------------------------------------------------------------------- C12
\* C12: a completeTrade transaction that failed or reverted is never
\* reported as a completed settlement: the POST /test/complete-bridge call
\* whose completeBridge failed does not answer success.
C12_FailedFinalizeNotReportedDone ==
    \A t \in TradeIds : \A k \in AdminCallers :
        cb[t][k] \in {"failed", "reverted"} =>
            AdminCompleteResponse(t, k) # "success"

\* ------------------------------------------------------------------- C13
\* C13: whatever the interleaving of the bridge watcher, the monitorTrades
\* ticks and POST /test/complete-bridge, at most one completeBridge call per
\* trade ever submits a completeTrade transaction.
C13_AtMostOneCompleteSubmitted ==
    \A t \in TradeIds :
        Cardinality({o \in CompleteOrigins : CompleteSubmitted(t, o)}) <= 1

\* ------------------------------------------------------------------- C14
\* C14: whenever a trade leaves the registry (completeBridge, slashUser or
\* the TradeCompleted listener), a completeTrade for it or a slash issued
\* for it is already confirmed on chain.
C14_RemovedOnlyWhenTerminal ==
    [][\A t \in TradeIds :
         (t \in activeTrades /\ t \notin activeTrades') =>
            SettleConfirmed(t) \/ SlashConfirmed(t)]_vars

C14_Witness ==
    \E t \in TradeIds :
        /\ tradeData[t].startTime # 0
        /\ t \notin activeTrades
        /\ t \notin completedEvents
        /\ SettleConfirmed(t)
        /\ \A o \in CompleteOrigins : cb[t][o] # "completed"

\* ------------------------------------------------------------------- C15
\* C15: the step in which a slashUser call fails (the slash could not be
\* submitted, or it reverted) leaves the registry, the trade record and the
\* audit log as they were; slashUser deletes a trade and writes an audit
\* record only in the step that follows the confirmation of its slash.
C15_FailedSlashChangesNothing ==
    [][\A t \in TradeIds : \A o \in SlashOrigins :
         /\ (sl'[t][o] \in {"failed", "reverted"} /\ sl[t][o] # sl'[t][o]) =>
               /\ activeTrades' = activeTrades
               /\ tradeData' = tradeData
               /\ audit' = audit
         /\ (sl'[t][o] = "slashed" /\ sl[t][o] # "slashed") =>
               sl[t][o] = "mined"
         /\ AuditRecord(t, o) \in audit' => sl'[t][o] = "slashed"]_vars

C15_Witness ==
    \E t \in TradeIds :
        /\ sl[t][TimerCaller] \in {"failed", "reverted"}
        /\ t \in activeTrades
        /\ tradeData[t].tradeExecuted
        /\ ~tradeData[t].bridgeCompleted
        /\ audit = {}

BridgeSeenDelivered(id, apiOk, chainOk) ==
    \/ apiOk /\ id # 0 /\ bridgeClaimed[id]
    \/ chainOk /\ ClaimedEventFound(id)

\* C17: a poll of monitorBridgeCompletion reports success, and
\* getBridgeStatus reports "Claimed"/"Completed", only when a source that
\* answered shows the transfer delivered; with both the status API and the
\* event query failing the poll is an error and getBridgeStatus "Pending".
\* The watcher calls completeBridge only on a poll that reported success,
\* after a failed or pending poll it keeps polling, and a monitorTrades tick
\* calls completeBridge only when the Claimed event exists.
C17_FailureIsNotCompletion ==
    /\ [](\A id \in {0} \cup TradeIds : \A apiOk \in BOOLEAN :
           \A chainOk \in BOOLEAN :
             /\ monitorBridgePoll(id, apiOk, chainOk) = "success" =>
                   BridgeSeenDelivered(id, apiOk, chainOk)
             /\ getBridgeStatus(id, apiOk, chainOk) \in {"Claimed", "Completed"}
                   => BridgeSeenDelivered(id, apiOk, chainOk)
             /\ (~apiOk /\ ~chainOk) =>
                   /\ monitorBridgePoll(id, apiOk, chainOk) = "error"
                   /\ getBridgeStatus(id, apiOk, chainOk) = "Pending")
    /\ [][\A t \in TradeIds :
            /\ (watcher[t] = "polling" /\ watcher'[t] = "completed") =>
                  /\ lastPoll'[t] = "success"
                  /\ ClaimedEventFound(req[t].debridgeId)
            /\ (lastPoll'[t] \in {"error", "pending"}
                  /\ lastPoll'[t] # lastPoll[t]) =>
                  /\ watcher'[t] = "polling"
                  /\ cb' = cb
            /\ \A p \in Pollers :
                  (poll[p].pc = "getBridgeStatus" /\ poll[p].cur = t
                     /\ poll'[p].pc = "completeBridge") =>
                     ClaimedEventFound(tradeData[t].debridgeId)]_vars

C17_Witness ==
    \E t \in TradeIds :
        /\ lastPoll[t] = "error"
        /\ watcher[t] = "polling"
        /\ bridgeClaimed[t]
        /\ cb[t][WatcherCaller] = "none"

\* ------------------------------------------------------------------- C18
\* C18: once a trade has been removed from the registry, no slashUser or
\* completeBridge call for it, whether started or resumed after the removal,
\* submits a slash or a completeTrade transaction.
C18_NoSubmissionAfterRemoval ==
    [][\A t \in TradeIds :
         (tradeData[t].startTime # 0 /\ t \notin activeTrades) =>
            /\ \A o \in SlashOrigins :
                  ~(sl[t][o] # "sent" /\ sl'[t][o] = "sent")
            /\ \A o \in CompleteOrigins :
                  ~(cb[t][o] # "sent" /\ cb'[t][o] = "sent")]_vars

\* ------------------------------------------------------------------- C19
\* the step in which POST /trade/initiate sends its success response
InitiateAnswersSuccess(t) == req[t].resp # "200" /\ req'[t].resp = "200"

\* C19 as stated: right after every successful POST /trade/initiate,
\* getTradeStatus of the returned tradeId gives exists = true with the
\* request's user and amount.
C19_RoundTrip ==
    [][\A t \in TradeIds :
         InitiateAnswersSuccess(t) =>
            /\ getTradeStatus(t)'.exists
            /\ getTradeStatus(t)'.user = req'[t].user
            /\ getTradeStatus(t)'.amount = req'[t].amount]_vars

\* C19, amended: right after a successful POST /trade/initiate,
\* getTradeStatus of the returned tradeId gives either exists = true with the
\* request's user and amount, or exists = false, and then a completeTrade or
\* a slash of that trade was confirmed on chain while the request was being
\* handled; whenever the status exists it carries the request's user and
\* amount.
C19_RoundTripUnlessTerminal ==
    [][\A t \in TradeIds :
         /\ InitiateAnswersSuccess(t) =>
               \/ getTradeStatus(t)'.exists
               \/ SettleConfirmed(t)' \/ SlashConfirmed(t)'
         /\ getTradeStatus(t)'.exists =>
               /\ getTradeStatus(t)'.user = req'[t].user
               /\ getTradeStatus(t)'.amount = req'[t].amount]_vars

C19_Witness ==
    \E t \in TradeIds :
        /\ req[t].resp = "200"
        /\ lastPoll[t] = "none"
        /\ getTradeStatus(t).exists
        /\ getTradeStatus(t).user = req[t].user
        /\ getTradeStatus(t).amount = req[t].amount
        /\ req[t].amount > 0

\* ------------------------------------------------------------------- C20
\* C20: from the moment a record is stored, no step changes its user,
\* amount, stakingContract or startTime.
C20_RegistrationFieldsFrozen ==
    [][\A t \in TradeIds :
         tradeData[t].startTime # 0 =>
            /\ tradeData'[t].user = tradeData[t].user
            /\ tradeData'[t].amount = tradeData[t].amount
            /\ tradeData'[t].stakingContract = tradeData[t].stakingContract
            /\ tradeData'[t].startTime = tradeData[t].startTime]_vars

C20_Witness ==
    \E t \in TradeIds :
        /\ t \in activeTrades
        /\ tradeData[t].debridgeId # 0
        /\ tradeData[t].tradeExecuted
        /\ tradeData[t].bridgeCompleted
        /\ timer[t] = "fired"
        /\ tradeData[t].user = req[t].user
        /\ tradeData[t].amount = req[t].amount
        /\ tradeData[t].startTime = 1

\* ------------------------------------------------------------------- C21
\* C21: once a record holds a non-null debridgeId, no step (a later call of
\* setDebridgeId included) changes it.
C21_DebridgeIdWriteOnce ==
    [][\A t \in TradeIds :
         tradeData[t].debridgeId # 0 =>
            tradeData'[t].debridgeId = tradeData[t].debridgeId]_vars

\* ------------------------------------------------------------------- C22
\* C22: POST /trade/initiate sends its response in the step in which the
\* venue execution returns, whether it succeeded or failed; the bridge
\* watcher is started in that same step, so it has polled nothing and called
\* nothing when the response goes out, and the response is not changed
\* afterwards.
C22_RespondsWithoutBridge ==
    /\ [](\A t \in TradeIds :
            req[t].execResult # "none" =>
               req[t].pc = "done" /\ req[t].resp = "200")
    /\ [][\A t \in TradeIds :
            /\ InitiateAnswersSuccess(t) =>
                  /\ req'[t].execResult \in {"ok", "failed", "notFound"}
                  /\ watcher[t] = "off"
                  /\ watcher'[t] = "polling"
                  /\ lastPoll'[t] = "none"
                  /\ cb'[t][WatcherCaller] = "none"
            /\ req[t].pc = "done" => req'[t] = req[t]]_vars

C22_Witness ==
    \E t \in TradeIds :
        /\ req[t].resp = "200"
        /\ req[t].execResult = "failed"
        /\ t \in activeTrades
        /\ ~tradeData[t].bridgeCompleted
        /\ watcher[t] = "polling"
        /\ lastPoll[t] = "pending"

\* ------------------------------------------------------------------- C23
\* the body POST /trade/initiate answers with: res.json({ success: true,
\* ..., message: "Trade executed successfully" }) after executeTrade
\* returned, whatever it returned; { error } with a 400 or 500 otherwise
InitiateResponse(t) ==
    IF req[t].resp = "200"
       THEN [success |-> TRUE, message |-> "Trade executed successfully"]
       ELSE [success |-> FALSE, message |-> req[t].error]

\* C23: the response of POST /trade/initiate reports success only when the
\* venue execution succeeded (tradeExecuted = true), and reports the failure
\* when the venue execution returned success = false.
C23_ResponseIsExecutionVerdict ==
    \A t \in TradeIds :
        /\ InitiateResponse(t).success =>
              req[t].execResult = "ok" /\ tradeData[t].tradeExecuted
        /\ req[t].execResult = "failed" => ~InitiateResponse(t).success

\* ------------------------------------------------------------------- C24
\* a completeTrade transaction of trade t failed or reverted
CompleteTradeFailed(t) ==
    \E o \in CompleteOrigins : cb[t][o] \in {"failed", "reverted"}

\* C24: a trade in the registry, registered on chain (so that completeTrade
\* can succeed) and holding its debridgeId, whose bridge is delivered (the
\* Claimed event exists, the status API reports it) while the deadline has
\* not passed and the watcher is polling, is eventually removed from the
\* registry, unless a completeTrade transaction for it fails, a poll of the
\* watcher found both the status API and the node failing, or a test
\* endpoint was called for it.
C24_CompletedBridgeIsRemoved ==
    \A t \in TradeIds :
        (/\ t \in activeTrades
         /\ CanCompleteTrade(tradeData[t].stakingContract, t)
         /\ tradeData[t].debridgeId # 0
         /\ bridgeClaimed[t]
         /\ timer[t] = "armed"
         /\ watcher[t] = "polling")
            ~> \/ t \notin activeTrades
               \/ CompleteTradeFailed(t)
               \/ lastPoll[t] = "error"
               \/ \E k \in AdminCallers : sl[t][k] # "none" \/ cb[t][k] # "none"

\* ------------------------------------------------------------------- C25
\* C25 as stated: tradeExecuted becomes true, and the slash timer is armed,
\* only for a trade that is in the registry at that step; bridgeCompleted
\* never goes back to false; a record that is executed or bridge-completed
\* was registered.
C25_LifecycleOrder ==
    [][\A t \in TradeIds :
         /\ (~tradeData[t].tradeExecuted /\ tradeData'[t].tradeExecuted) =>
               t \in activeTrades
         /\ (timer[t] # "armed" /\ timer'[t] = "armed") => t \in activeTrades
         /\ tradeData[t].bridgeCompleted => tradeData'[t].bridgeCompleted
         /\ (tradeData'[t].tradeExecuted \/ tradeData'[t].bridgeCompleted) =>
               tradeData'[t].startTime # 0]_vars

\* C25, amended: tradeExecuted becomes true only at the end of an
\* executeTrade call that found the trade in the registry when it started
\* (a trade removed while the venue call was in flight still gets the flag,
\* on its removed record); an executeTrade call that does not find the
\* trade calls no venue, writes nothing and arms no timer; the slash timer
\* is armed only for a trade in the registry at that step; bridgeCompleted
\* never goes back to false; a record that is executed or bridge-completed
\* was registered.
C25_LifecycleOrderFromCallStart ==
    [][\A t \in TradeIds :
         /\ (~tradeData[t].tradeExecuted /\ tradeData'[t].tradeExecuted) =>
               req[t].pc = "executing" /\ tradeData[t].startTime # 0
         /\ (req[t].pc # "executing" /\ req'[t].pc = "executing") =>
               t \in activeTrades
         /\ (req[t].execResult = "none" /\ req'[t].execResult = "notFound") =>
               /\ t \notin activeTrades
               /\ ~tradeData'[t].tradeExecuted
               /\ timer' = timer
         /\ (timer[t] # "armed" /\ timer'[t] = "armed") => t \in activeTrades
         /\ tradeData[t].bridgeCompleted => tradeData'[t].bridgeCompleted
         /\ (tradeData'[t].tradeExecuted \/ tradeData'[t].bridgeCompleted) =>
               tradeData'[t].startTime # 0]_vars

C25_Witness ==
    \E t \in TradeIds :
        /\ tradeData[t].tradeExecuted
        /\ tradeData[t].bridgeCompleted
        /\ timer[t] = "unset"
        /\ t \notin activeTrades
        /\ \A k \in AdminCallers : sl[t][k] = "none" /\ cb[t][k] = "none"

\* ------------------------------------------------------------------- C26
\* C26: every record in the registry carries the staking contract the
\* factory maps to the record's user, and that contract is not address(0).
C26_StakingContractIsUsersOwn ==
    \A t \in activeTrades :
        /\ tradeData[t].stakingContract # ZeroAddress
        /\ tradeData[t].stakingContract =
              userStakingContracts[tradeData[t].user]

\* ------------------------------------------------------------------- C27
\* the errors of registerTrade's stake verification
StakeErrors ==
    {"User has no staking contract", "Staking contract is slashed",
     "Insufficient stake for trade amount"}

\* request r fails in this step with message msg
FailsWith(r, msg) == req[r].error = "none" /\ req'[r].error = msg

C28_CollateralRatio110 ==
    \A r \in Requests :
        req[r].verified =>
            stakedAmount[req[r].stakingAddress] * 10000 >= req[r].amount * 11000

\* ------------------------------------------------------------------- C29
\* C29: a withdrawal succeeds only on a contract that is not slashed and has
\* no active trade, so a contract with a registered, uncompleted trade keeps
\* its stake until it is slashed.
C29_NoWithdrawWithActiveTrades ==
    [][\A c \in Contracts :
         /\ stakedAmount'[c] < stakedAmount[c] =>
               ~isSlashed[c] /\ chainTrades[c] = {}
         /\ (chainTrades[c] # {} /\ stakedAmount[c] > 0) =>
               stakedAmount'[c] > 0]_vars

\* ------------------------------------------------------------------- C30
\* C30: deployStakingContract is refused to a user who has a contract;
\* userStakingContracts[u] never changes once it is non-zero;
\* hasStakingContract(u) is true exactly when getUserStakingContract(u) is
\* non-zero; getTotalContracts() is the number of users with a contract, and
\* no contract is listed twice.
C30_OneContractPerUser ==
    /\ [](/\ \A u \in Users :
               /\ hasStakingContract(u) <=>
                     getUserStakingContract(u) # ZeroAddress
               /\ userStakingContracts[u] # ZeroAddress =>
                     \A v \in Users : ~ENABLED deployStakingContract(u, v)
          /\ getTotalContracts =
                Cardinality({u \in Users : userStakingContracts[u] # ZeroAddress})
          /\ \A i \in 1..Len(deployedContracts) :
                \A j \in 1..Len(deployedContracts) :
                   deployedContracts[i] = deployedContracts[j] => i = j)
    /\ [][\A u \in Users :
            userStakingContracts[u] # ZeroAddress =>
               userStakingContracts'[u] = userStakingContracts[u]]_vars

C30_Witness ==
    /\ getTotalContracts = MaxUsers
    /\ \A u \in Users : hasStakingContract(u)
    /\ deployedContracts[1] = MaxUsers

\* ================================================== the TypeScript SDK
\* the number of SDK method calls followed
MaxSdkCalls == 2

\* new HyperFlashSDK(config): this.wallet exists iff config.privateKey is set
NewSdk(w) == [NoSdk EXCEPT !.wallet = w, !.pc = "idle"]

\* the public async methods of HyperFlashSDK that talk to the backend
SdkOps == {"checkStakingStatus", "deployStakingContract", "stakeFunds",
           "executeTrade", "getTradeStatus", "getActiveTrades",
           "estimateGasCost"}

\* the wallet check that opens executeTrade only
WalletOpsTradingOnly == {"executeTrade"}

\* the methods that open with `if (!this.wallet) throw`
WalletOps == {"checkStakingStatus", "deployStakingContract", "stakeFunds",
              "executeTrade", "getActiveTrades"}

WalletNotConfigured == "Wallet not configured. Please provide a private key."

\* the error axios rejects with (no connection, or a status outside 2xx)
TransportError == "Network error"

NoResp == NoSdk.resp

\* what axios can hand back: a rejection, or response.data of a 2xx answer
\* (success, error, tradeId and hasStakingContract may be absent: FALSE, "",
\* 0 and FALSE)
Responses ==
    {[NoResp EXCEPT !.kind = "error"]} \cup
    {[kind |-> "data", success |-> ok, error |-> e, tradeId |-> t,
      hasStakingContract |-> h] :
        ok \in BOOLEAN, e \in {"", "Insufficient stake"},
        t \in 0..MaxSdkCalls, h \in BOOLEAN}

NoResult == NoSdk.result

\* throw new Error(msg), rethrown by the method's catch
Rejected(msg) == [NoResult EXCEPT !.kind = "rejected", !.message = msg]

\* a value returned by the method
Resolved == [NoResult EXCEPT !.kind = "resolved"]

\* executeTrade that reports every answered request as executed
executeTradeResultOptimistic(resp) ==
    IF resp.kind = "error" THEN Rejected(TransportError)
    ELSE [Resolved EXCEPT !.tradeId = resp.tradeId, !.status = "executed"]

\* executeTrade after its axios.post: the outcome for each response
executeTradeResult(resp) ==
    IF resp.kind = "error" THEN Rejected(TransportError)
    ELSE IF resp.success
            THEN [Resolved EXCEPT !.tradeId = resp.tradeId,
                                  !.status = "executed"]
    ELSE Rejected(IF resp.error # "" THEN resp.error ELSE "Trade failed")

\* deployStakingContract and stakeFunds after their axios.post
SuccessOrError(resp, fallback) ==
    IF resp.kind = "error" THEN Rejected(TransportError)
    ELSE IF resp.success THEN Resolved
    ELSE Rejected(IF resp.error # "" THEN resp.error ELSE fallback)

\* the outcome of method op for the response of its (last) request
SdkResult(op, resp) ==
    CASE op = "executeTrade" -> executeTradeResult(resp)
      [] op = "deployStakingContract" ->
            SuccessOrError(resp, "Deployment failed")
      [] op = "stakeFunds" -> SuccessOrError(resp, "Staking failed")
      [] OTHER -> IF resp.kind = "error" THEN Rejected(TransportError)
                  ELSE Resolved

\* the backend's and the contracts' variables, untouched by the SDK
sdkFrame == <<chainVars, server, activeTrades, tradeData, now, req, timer,
              sl, cb, watcher, poll, lastPoll, audit, bridgeClaimed,
              completedEvents>>

\* a method is called: the wallet check, then the first request is sent
\* (stakeFunds starts with this.checkStakingStatus())
SdkCall(op) ==
    /\ sdk.pc = "idle"
    /\ sdk.calls < MaxSdkCalls
    /\ IF op \in WalletOps /\ ~sdk.wallet
          THEN sdk' = [sdk EXCEPT !.op = op, !.calls = @ + 1,
                                  !.resp = NoResp,
                                  !.result = Rejected(WalletNotConfigured)]
          ELSE sdk' = [sdk EXCEPT !.op = op, !.calls = @ + 1,
                                  !.resp = NoResp, !.result = NoResult,
                                  !.requests = @ + 1,
                                  !.pc = IF op = "stakeFunds"
                                            THEN "awaitStatus" ELSE "await"]
    /\ UNCHANGED sdkFrame

\* stakeFunds: checkStakingStatus answers; without a staking contract the
\* method throws, else it posts /user/stake
SdkStatusResponse(resp) ==
    /\ sdk.pc = "awaitStatus"
    /\ IF resp.kind = "error"
          THEN sdk' = [sdk EXCEPT !.pc = "idle", !.resp = resp,
                                  !.result = Rejected(TransportError)]
          ELSE IF ~resp.hasStakingContract
          THEN sdk' = [sdk EXCEPT !.pc = "idle", !.resp = resp,
                  !.result = Rejected(
                      "No staking contract found. Deploy one first.")]
          ELSE sdk' = [sdk EXCEPT !.pc = "await", !.requests = @ + 1]
    /\ UNCHANGED sdkFrame

\* the awaited request settles and the method returns or throws
SdkResponse(resp) ==
    /\ sdk.pc = "await"
    /\ sdk' = [sdk EXCEPT !.pc = "idle", !.resp = resp,
                          !.result = SdkResult(sdk.op, resp)]
    /\ UNCHANGED sdkFrame

\* an SDK instance built with or without a privateKey, next to an idle
\* backend
InitSdk ==
    /\ server = "real"
    /\ userStakingContracts = [u \in Users |-> ZeroAddress]
    /\ deployedContracts = <<>>
    /\ stakedAmount = [c \in Contracts |-> 0]
    /\ isSlashed = [c \in Contracts |-> FALSE]
    /\ chainTrades = [c \in Contracts |-> {}]
    /\ balance = [c \in Contracts |-> 0]
    /\ factoryBackend = Backend
    /\ stakingImpl = "UserStaking"
    /\ stakingBackend = [c \in Contracts |-> ZeroAddress]
    /\ activeTrades = {}
    /\ tradeData = [t \in TradeIds |-> NoTrade]
    /\ now = 1
    /\ req = [r \in Requests |-> NoReq]
    /\ timer = [t \in TradeIds |-> "unset"]
    /\ sl = [t \in TradeIds |-> [o \in SlashOrigins |-> "none"]]
    /\ cb = [t \in TradeIds |-> [o \in CompleteOrigins |-> "none"]]
    /\ watcher = [t \in TradeIds |-> "off"]
    /\ poll = [p \in Pollers |-> [pc |-> "idle", cur |-> 0]]
    /\ lastPoll = [t \in TradeIds |-> "none"]
    /\ audit = {}
    /\ bridgeClaimed = [t \in TradeIds |-> FALSE]
    /\ completedEvents = {}
    /\ sdk \in {NewSdk(w) : w \in BOOLEAN}

NextSdk ==
    \/ \E op \in SdkOps : SdkCall(op)
    \/ \E resp \in Responses : SdkStatusResponse(resp)
    \/ \E resp \in Responses : SdkResponse(resp)

SpecSdk == InitSdk /\ [][NextSdk]_vars

\* ------------------------------------------------------------------- C31
\* C31: checkStakingStatus, deployStakingContract, stakeFunds, executeTrade
\* and getActiveTrades, called on an SDK built without a privateKey, fail
\* with 'Wallet not configured' before any request is sent to the backend.
C31_WalletNotConfigured ==
    [][(/\ ~sdk.wallet
        /\ sdk'.calls = sdk.calls + 1
        /\ sdk'.op \in {"checkStakingStatus", "deployStakingContract",
                        "stakeFunds", "executeTrade", "getActiveTrades"})
       => /\ sdk'.result.kind = "rejected"
          /\ sdk'.result.message =
                "Wallet not configured. Please provide a private key."
          /\ sdk'.requests = sdk.requests
          /\ sdk'.pc = "idle"]_vars

C31_Witness ==
    /\ ~sdk.wallet
    /\ sdk.calls = MaxSdkCalls
    /\ sdk.requests = 1
    /\ sdk.op = "getActiveTrades"
    /\ sdk.result = Rejected(WalletNotConfigured)

\* ------------------------------------------------------------------- C32
\* C32: executeTrade resolves with the backend's tradeId and status
\* 'executed' exactly when the /trade/initiate response has success = true;
\* when the request fails or the response has no success = true it rejects
\* with the transport error, or with the backend's error message or 'Trade
\* failed', and never reports 'executed'.
C32_ExecutedIffSuccess ==
    (sdk.op = "executeTrade" /\ sdk.pc = "idle" /\ sdk.resp.kind # "none")
    => /\ sdk.result.kind \in {"resolved", "rejected"}
       /\ sdk.result.kind = "resolved" <=>
             (sdk.resp.kind = "data" /\ sdk.resp.success)
       /\ sdk.result.kind = "resolved" =>
             /\ sdk.result.tradeId = sdk.resp.tradeId
             /\ sdk.result.status = "executed"
       /\ sdk.result.kind = "rejected" =>
             /\ sdk.result.status # "executed"
             /\ sdk.result.message =
                   IF sdk.resp.kind = "error" THEN "Network error"
                   ELSE IF sdk.resp.error # "" THEN sdk.resp.error
                   ELSE "Trade failed"

C32_Witness ==
    /\ sdk.op = "executeTrade"
    /\ sdk.pc = "idle"
    /\ sdk.calls = MaxSdkCalls
    /\ sdk.resp.kind = "data"
    /\ ~sdk.resp.success
    /\ sdk.resp.tradeId = MaxSdkCalls
    /\ sdk.result = Rejected("Trade failed")

\* ------------------------------------------------------------------- C37
\* C37: isSlashed never returns from true to false; on a slashed contract
\* every depositAndStake, registerTrade, slash and withdraw reverts,
\* hasSufficientStake is false for every amount and getStatus reports
\* isActive = false.
C37_SlashedIsTerminal ==
    /\ [](\A c \in Contracts :
            (userStakingContracts[c] # ZeroAddress /\ isSlashed[c]) =>
               /\ \A s \in Senders :
                     /\ \A v \in 0..MaxDeposit :
                           ~ENABLED depositAndStake(s, c, v)
                     /\ \A t \in TradeIds : ~ENABLED registerTrade(s, c, t)
                     /\ ~ENABLED slash(s, c)
                     /\ ~ENABLED withdraw(s, c)
               /\ \A a \in 0..MaxDeposit : ~hasSufficientStake(c, a)
               /\ ~getStatus(c).isActive)
    /\ [][\A c \in Contracts : isSlashed[c] => isSlashed'[c]]_vars

C37_Witness ==
    \E c \in Contracts :
        /\ isSlashed[c]
        /\ stakingImpl = "UserStaking"
        /\ stakedAmount[c] = 1
        /\ balance[c] = 1
        /\ chainTrades[c] # {}

\* ------------------------------------------------------------------- C38
\* C38: only the backend address a UserStaking was deployed with can call
\* its registerTrade, completeTrade and slash, only the owning user its
\* depositAndStake and withdraw; a call by any other sender reverts (and so
\* leaves stakedAmount, isSlashed and activeTrades as they were); the
\* backend address of a deployed contract never changes.
C38_OnlyBackendOnlyUser ==
    /\ [](\A c \in Contracts : \A s \in Senders :
            /\ s # stakingBackend[c] =>
                  /\ \A t \in TradeIds :
                        /\ ~ENABLED registerTrade(s, c, t)
                        /\ ~ENABLED completeTrade(s, c, t)
                  /\ ~ENABLED slash(s, c)
            /\ s # c =>
                  /\ \A v \in 0..MaxDeposit :
                        ~ENABLED depositAndStake(s, c, v)
                  /\ ~ENABLED withdraw(s, c))
    /\ [][\A c \in Contracts :
            userStakingContracts[c] # ZeroAddress =>
               stakingBackend'[c] = stakingBackend[c]]_vars

C38_Witness ==
    \E c \in Contracts :
        /\ userStakingContracts[c] # ZeroAddress
        /\ stakingBackend[c] = Backend
        /\ factoryBackend \in Users
        /\ isSlashed[c]
        /\ \E d \in Contracts : d # c /\ stakingBackend[d] = factoryBackend
                                       /\ chainTrades[d] # {}

\* ------------------------------------------------------------------- C39
\* C39: in every reachable state of a staking contract the recorded
\* stakedAmount does not exceed the native balance the contract holds.
C39_StakeBackedByBalance ==
    \A c \in Contracts : stakedAmount[c] <= balance[c]

\* ------------------------------------------------------------------- C35
\* C35: a trade record enters the in-memory registry only after its
\* registerTrade transaction was confirmed, so at that moment the tradeId
\* is registered on the staking contract the record names.
C35_StoredAfterRegistration ==
    [][\A t \in TradeIds :
         (t \notin activeTrades /\ t \in activeTrades') =>
            t \in chainTrades[tradeData'[t].stakingContract]]_vars

\* ------------------------------------------------------------------- C36
\* C36: POST /test/slash answers success only if a slash transaction was
\* confirmed for that call, POST /test/complete-bridge answers success only
\* if the trade existed and its completeTrade was confirmed.
C36_AdminAnswersWhatHappened ==
    \A t \in TradeIds : \A k \in AdminCallers :
        /\ AdminSlashResponse(t, k) = "success" => sl[t][k] = "slashed"
        /\ AdminCompleteResponse(t, k) = "success" => cb[t][k] = "completed"

\* ------------------- the coordinator next to slashes for other trades
\* the slash transaction of slashUser for another trade of the same user
\* (a trade outside TradeIds) is mined on staking contract c
OtherTradeSlash(c) == slash(Backend, c)

NextSlashed ==
    \/ Next
    \/ \E c \in Contracts : OtherTradeSlash(c)

SpecSlashed == Init /\ [][NextSlashed]_vars

\* ------------------------------------------------------------------- C33
\* C33 as stated: once the deadline of an executed, unsettled trade fired
\* while the staking contract was already slashed, the trade stays in the
\* registry with tradeExecuted = true and bridgeCompleted = false for good
\* (the test endpoint POST /test/complete-bridge left aside).
C33_StuckIndefinitely ==
    [][\A t \in TradeIds :
         (/\ sl[t][TimerCaller] = "alreadySlashed"
          /\ t \in activeTrades
          /\ tradeData[t].tradeExecuted
          /\ ~tradeData[t].bridgeCompleted
          /\ \A k \in AdminCallers : cb'[t][k] = "none")
         => /\ t \in activeTrades'
            /\ tradeData'[t].tradeExecuted
            /\ ~tradeData'[t].bridgeCompleted]_vars

\* C33, amended: a slashUser call that finds the staking contract slashed
\* ends without a transaction, an audit record or a removal; the trade of a
\* deadline that ended so stays in the registry with tradeExecuted = true
\* until a completeTrade (or a slash sent by another call) for it is
\* confirmed on chain.
C33_SkippedSlashKeepsTrade ==
    /\ [][\A t \in TradeIds : \A o \in SlashOrigins :
            (/\ sl[t][o] = "isSlashed"
             /\ sl'[t][o] # "isSlashed"
             /\ isSlashed[tradeData[t].stakingContract])
            => /\ sl'[t][o] = "alreadySlashed"
               /\ activeTrades' = activeTrades
               /\ audit' = audit
               /\ UNCHANGED chainVars]_vars
    /\ [][\A t \in TradeIds :
            (sl[t][TimerCaller] = "alreadySlashed" /\ t \in activeTrades)
            => /\ sl'[t][TimerCaller] = "alreadySlashed"
               /\ tradeData'[t].tradeExecuted
               /\ t \notin activeTrades' =>
                     SettleConfirmed(t) \/ SlashConfirmed(t)]_vars
    /\ [](\A t \in TradeIds :
            sl[t][TimerCaller] = "alreadySlashed" =>
               \A a \in audit : a.txHash # <<t, TimerCaller>>)

C33_Witness ==
    \E t \in TradeIds :
        /\ sl[t][TimerCaller] = "alreadySlashed"
        /\ \A k \in AdminCallers : sl[t][k] = "none"
        /\ t \in activeTrades
        /\ tradeData[t].tradeExecuted
        /\ ~tradeData[t].bridgeCompleted
        /\ watcher[t] = "timedOut"
        /\ audit = {}

====
